---- MODULE Spec2Model ----
(***************************************************************************)
(* A model of the two utilities of the repository:                         *)
(*   - the redactor, Censoring-Script/pdf_censor.py (censor_pdf, the       *)
(*     folder driver process_pdf_folder and the command line), and         *)
(*   - the classifier, PDF2JSON/separate-formats.py (extraction of the     *)
(*     first page's text, check_graph_titles, check_all_formats and the    *)
(*     folder driver main).                                                *)
(*                                                                         *)
(* Conventions.  A path is a record [dir, stem, ext]: dir is the sequence  *)
(* of directory components, stem and ext what os.path.splitext returns for *)
(* the base name (base name = stem \o ext).  Python's None for a string is *)
(* the empty string "" (the code only tests these values for truth), None  *)
(* for a directory is the empty sequence.  A page is the sequence of its   *)
(* text items in reading order, each a word at a point; the text of a clip *)
(* is the sequence of the words whose point lies in the clip.  The         *)
(* coordinates of the command line are rounded to integers, and the n with *)
(* tilde of the age pattern is written n.                                  *)
(*                                                                         *)
(* The PDF library's calls that read the file or write to the file system  *)
(* (open, text extraction, insert_pdf, save) and the file copies may       *)
(* raise; the edits of a page whose text was already extracted             *)
(* (add_redact_annot, apply_redactions, insert_text) are total.            *)
(***************************************************************************)
EXTENDS Naturals, Integers, Sequences, FiniteSets, TLC

VARIABLES cz, fd, cl, tt

vars == <<cz, fd, cl, tt>>

(***************************************************************************)
(* Bounds of the exploration.                                              *)
(***************************************************************************)
MaxItems == 2
MaxPages == 2
MaxFiles == 2
MaxEdits == 2

(***************************************************************************)
(* Small helpers.                                                          *)
(***************************************************************************)
Range(s) == {s[i] : i \in 1..Len(s)}

SeqsUpTo(S, n) == UNION {[1..k -> S] : k \in 0..n}

RECURSIVE Flatten(_)
Flatten(ss) == IF ss = <<>> THEN <<>> ELSE Head(ss) \o Flatten(Tail(ss))

(***************************************************************************)
(* Paths.                                                                  *)
(***************************************************************************)
NoDir == <<>>

\* A variant of OutputPath that keeps the base name of the input.
OutputPathSameName(pdf_path, output_dir) ==
    [dir  |-> IF output_dir # NoDir THEN output_dir ELSE pdf_path.dir,
     stem |-> pdf_path.stem,
     ext  |-> pdf_path.ext]

\* os.path.join(output_dir, f"{base_name_no_ext}_censored{ext}"), with the
\* directory of the input when no output directory is given.
OutputPath(pdf_path, output_dir) ==
    [dir  |-> IF output_dir # NoDir THEN output_dir ELSE pdf_path.dir,
     stem |-> pdf_path.stem \o "_censored",
     ext  |-> pdf_path.ext]

(***************************************************************************)
(* The redactor's input: rectangles, words, pages, documents.              *)
(***************************************************************************)
\* The coordinates of the command line (rounded), keyed by "page number".
DefaultCoordinates ==
    << <<0, << <<39, 8, 95, 108>> >> >>,
       <<1, << <<22, 8, 38, 268>> >> >>,
       <<2, << <<568, 689, 584, 768>> >> >> >>

\* Coordinates a caller of censor_pdf may pass: a rectangle of length 3,
\* and two rectangles that overlap.
OtherCoordinates ==
    << <<0, << <<39, 8, 95, 108>>, <<39, 8, 95>> >> >>,
       <<5, << <<50, 8, 120, 90>> >> >> >>

CoordinateDicts == {DefaultCoordinates, OtherCoordinates}

\* Width of the first page (A4 landscape).
PageWidths == {842}

\* Sample points: inside the first mirrored rectangle, inside the third
\* mirrored rectangle, and inside the first rectangle as written (not
\* mirrored), which lies outside every mirrored rectangle.
Points == { <<60, 784>>, <<575, 100>>, <<60, 50>> }

Whitespace == {" "}

Words == {"Masculino", "Femenino", "(45 anos)", "(30 anos)", "Juan", " "}

Items == [word : Words, at : Points]

Pages == SeqsUpTo(Items, MaxItems)

Docs ==
    {[npages |-> 0, width |-> 0, items |-> <<>>]}
    \cup [npages : 1..MaxPages, width : PageWidths, items : Pages]

\* The library calls of censor_pdf that may raise.
CensorFaults == {"none", "open", "get_text", "insert_pdf", "save"}

(***************************************************************************)
(* censor_pdf: text matching.                                              *)
(***************************************************************************)
\* y1_transformed, y2_transformed = page_width - y2, page_width - y1
Mirror(rect, page_width) ==
    <<rect[1], page_width - rect[4], rect[3], page_width - rect[2]>>

InRect(pt, rect) ==
    /\ rect[1] <= pt[1] /\ pt[1] <= rect[3]
    /\ rect[2] <= pt[2] /\ pt[2] <= rect[4]

\* page.get_text("text", clip=redact_rect)
ClipText(items, rect) ==
    LET inside == SelectSeq(items, LAMBDA it : InRect(it.at, rect))
    IN  [i \in 1..Len(inside) |-> inside[i].word]

\* page.get_text().strip() is empty
StrippedTextEmpty(items) == \A i \in 1..Len(items) : items[i].word \in Whitespace

\* "Masculino" in text / "Femenino" in text
Contains(text, literal) == \E i \in 1..Len(text) : text[i] = literal

ExtractGender(text) ==
    IF Contains(text, "Masculino") THEN "Masculino"
    ELSE IF Contains(text, "Femenino") THEN "Femenino"
    ELSE ""

\* The words the pattern \((\d+) anos\) matches, with the digits it captures.
AgeDigits == [w \in {"(45 anos)", "(30 anos)"} |->
                 IF w = "(45 anos)" THEN "45" ELSE "30"]

\* re.search: the first match; age = f"({age_match.group(1)} anos)"
ExtractAge(text) ==
    LET hits == SelectSeq(text, LAMBDA w : w \in DOMAIN AgeDigits)
    IN  IF hits = <<>> THEN "" ELSE "(" \o AgeDigits[Head(hits)] \o " anos)"

\* all_rectangles: the lists of the dictionary, concatenated
AllRectangles(coordinates_dict) ==
    Flatten([i \in 1..Len(coordinates_dict) |-> coordinates_dict[i][2]])

\* " ".join(text_items)
JoinItems(text_items) ==
    IF Len(text_items) = 0 THEN ""
    ELSE IF Len(text_items) = 1 THEN text_items[1]
    ELSE text_items[1] \o " " \o text_items[2]

\* fitz.Point(90, 784)
TextPoint == <<90, 784>>

(***************************************************************************)
(* censor_pdf.  A call is a record; each phase of the function is an       *)
(* operator from the call's state to its next state.  pc names the phase   *)
(* to run next; pending is what the function is about to leave with while  *)
(* its finally clause runs; outcome is how it left: "path" (it returned    *)
(* output_path), "None" (it returned None) or "raise".                     *)
(***************************************************************************)
NoPath == [dir |-> NoDir, stem |-> "", ext |-> ""]

Ev(op, i) == [op |-> op, i |-> i]

CensorCall(pdf_path, doc, coordinates_dict, output_dir, include_info, fault) ==
    [pdf_path |-> pdf_path, doc |-> doc, coordinates_dict |-> coordinates_dict,
     output_dir |-> output_dir, include_info |-> include_info, fault |-> fault,
     pc |-> "begin", pending |-> "", outcome |-> "",
     output_path |-> NoPath,
     orig |-> "none", new |-> "none", cur |-> "orig", page_of |-> "orig",
     misuse |-> FALSE,
     is_multi_page |-> FALSE, page_width |-> 0,
     extracted_info |-> <<>>,
     page |-> <<>>, annots |-> <<>>, redacted |-> {}, inserted |-> <<>>,
     saved |-> <<>>, log |-> <<>>]

\* The state of the handle a name refers to.
HandleState(r, which) == IF which = "orig" THEN r.orig ELSE r.new

\* A use of the page (or of the document) through a handle: it is a misuse
\* when the handle is not open.
Touch(r, which) == [r EXCEPT !.misuse = @ \/ HandleState(r, which) # "open"]

\* Leave the try block: the finally clause runs next.
Leave(r, how) == [r EXCEPT !.pc = "finally", !.pending = how]

\* Lines 24-37: the output path, then fitz.open, outside the try block.
CensorBegin(r) ==
    LET r1 == [r EXCEPT !.output_path = OutputPath(r.pdf_path, r.output_dir)]
    IN  IF r.fault = "open"
        THEN [r1 EXCEPT !.pc = "done", !.outcome = "raise"]
        ELSE [r1 EXCEPT !.orig = "open", !.pc = "check_pages",
                        !.log = Append(@, Ev("open", 0))]

\* Lines 41-43: a document without pages.
CensorCheckPages(r) ==
    LET r1 == Touch(r, r.cur)
    IN  IF r.doc.npages = 0 THEN Leave(r1, "None")
        ELSE [r1 EXCEPT !.pc = "check_text"]

\* Lines 46-52: the first page and its text; a scanned PDF has none.
CensorCheckText(r) ==
    LET r1 == Touch([r EXCEPT !.page = r.doc.items, !.page_of = r.cur], r.cur)
    IN  IF r.fault = "get_text" THEN Leave(r1, "raise")
        ELSE IF StrippedTextEmpty(r1.page) THEN Leave(r1, "None")
        ELSE [r1 EXCEPT !.pc = "first_pass"]

\* Lines 78-108, for one rectangle of length 4.
RectInfo(items, page_width, rect) ==
    LET redact_rect == Mirror(rect, page_width)
        text == ClipText(items, redact_rect)
    IN  [rect |-> redact_rect, gender |-> ExtractGender(text),
         age |-> ExtractAge(text)]

\* Lines 71-108: extracted_info, in the order of its keys' insertion; i is
\* the rectangle's index as enumerate counts it (from 0).
FirstPassInfo(items, page_width, rects) ==
    LET found(k) ==
            /\ Len(rects[k]) = 4
            /\ LET info == RectInfo(items, page_width, rects[k])
               IN  info.gender # "" \/ info.age # ""
        idx == SelectSeq([k \in 1..Len(rects) |-> k], found)
    IN  [n \in 1..Len(idx) |->
            LET info == RectInfo(items, page_width, rects[idx[n]])
            IN  [i |-> idx[n] - 1, rect |-> info.rect,
                 gender |-> info.gender, age |-> info.age]]

\* The indices (from 0) of the rectangles of length 4.
ValidIndices(rects) ==
    SelectSeq([k \in 1..Len(rects) |-> k - 1], LAMBDA i : Len(rects[i + 1]) = 4)

\* A variant of CensorFirstPass that black-fills each rectangle as soon as
\* its text was read, so that a rectangle is read after the redaction of
\* the ones before it.
CensorFirstPassRedacting(r) ==
    LET rects == AllRectangles(r.coordinates_dict)
        width == r.doc.width
        valid == ValidIndices(rects)
        left(k) == SelectSeq(r.page, LAMBDA it :
                      \A j \in 1..(k - 1) :
                          Len(rects[j]) = 4 => ~InRect(it.at, Mirror(rects[j], width)))
        found(k) ==
            /\ Len(rects[k]) = 4
            /\ LET info == RectInfo(left(k), width, rects[k])
               IN  info.gender # "" \/ info.age # ""
        idx == SelectSeq([k \in 1..Len(rects) |-> k], found)
        infos == [n \in 1..Len(idx) |->
                    LET info == RectInfo(left(idx[n]), width, rects[idx[n]])
                    IN  [i |-> idx[n] - 1, rect |-> info.rect,
                         gender |-> info.gender, age |-> info.age]]
        r2 == [Touch(r, r.page_of) EXCEPT
                  !.is_multi_page = r.doc.npages > 1,
                  !.page_width = width,
                  !.extracted_info = infos,
                  !.log = @ \o Flatten([n \in 1..Len(valid) |->
                              <<Ev("extract", valid[n]), Ev("annot", valid[n])>>])]
    IN  IF infos = <<>> THEN Leave(r2, "None")
        ELSE [r2 EXCEPT !.pc = "single_page"]

\* A variant of CensorFirstPass that goes on when nothing was extracted.
CensorFirstPassNoCheck(r) ==
    LET rects == AllRectangles(r.coordinates_dict)
        valid == ValidIndices(rects)
    IN  [Touch(r, r.page_of) EXCEPT
            !.is_multi_page = r.doc.npages > 1,
            !.page_width = r.doc.width,
            !.extracted_info = FirstPassInfo(r.page, r.doc.width, rects),
            !.log = @ \o [n \in 1..Len(valid) |-> Ev("extract", valid[n])],
            !.pc = "single_page"]

\* Lines 55-112: is_multi_page, the page's width, the first pass.
CensorFirstPass(r) ==
    LET rects == AllRectangles(r.coordinates_dict)
        width == r.doc.width
        infos == FirstPassInfo(r.page, width, rects)
        valid == ValidIndices(rects)
        r1 == Touch(r, r.page_of)
        r2 == [r1 EXCEPT !.is_multi_page = r.doc.npages > 1,
                         !.page_width = width,
                         !.extracted_info = infos,
                         !.log = @ \o [n \in 1..Len(valid) |-> Ev("extract", valid[n])]]
    IN  IF infos = <<>> THEN Leave(r2, "None")
        ELSE [r2 EXCEPT !.pc = "single_page"]

\* A variant of CensorSinglePage that keeps the document as it is.
CensorSinglePageKeepsAll(r) == [r EXCEPT !.pc = "second_pass"]

\* Lines 115-121: a multi-page document is replaced by a new document that
\* holds its first page; the original is closed.
CensorSinglePage(r) ==
    IF ~r.is_multi_page THEN [r EXCEPT !.pc = "second_pass"]
    ELSE LET r1 == Touch([r EXCEPT !.new = "open",
                                   !.log = Append(@, Ev("open_new", 0))], r.cur)
         IN  IF r.fault = "insert_pdf" THEN Leave(r1, "raise")
             ELSE [r1 EXCEPT !.orig = "closed", !.cur = "new", !.page_of = "new",
                             !.page = r.doc.items,
                             !.log = Append(@, Ev("close", 0)),
                             !.pc = "second_pass"]

\* A variant of CensorSecondPass that redacts the rectangles as written,
\* without the mirroring.
CensorSecondPassUnmirrored(r) ==
    LET rects == AllRectangles(r.coordinates_dict)
        valid == ValidIndices(rects)
        annots == [n \in 1..Len(valid) |-> rects[valid[n] + 1]]
        keep(it) == \A n \in 1..Len(annots) : ~InRect(it.at, annots[n])
    IN  [Touch(r, r.page_of) EXCEPT
            !.annots = annots,
            !.redacted = Range(annots),
            !.page = SelectSeq(r.page, keep),
            !.log = @ \o [n \in 1..Len(valid) |-> Ev("annot", valid[n])]
                      \o <<Ev("apply", 0)>>,
            !.pc = "third_pass"]

\* Lines 124-142: a redaction annotation for every rectangle of length 4,
\* then apply_redactions, which removes the text inside them.
CensorSecondPass(r) ==
    LET rects == AllRectangles(r.coordinates_dict)
        valid == ValidIndices(rects)
        annots == [n \in 1..Len(valid) |-> Mirror(rects[valid[n] + 1], r.page_width)]
        keep(it) == \A n \in 1..Len(annots) : ~InRect(it.at, annots[n])
        r1 == Touch(r, r.page_of)
    IN  [r1 EXCEPT !.annots = annots,
                   !.redacted = Range(annots),
                   !.page = SelectSeq(r.page, keep),
                   !.log = @ \o [n \in 1..Len(valid) |-> Ev("annot", valid[n])]
                             \o <<Ev("apply", 0)>>,
                   !.pc = "third_pass"]

\* Lines 148-156: the text laid over for one entry of extracted_info.
OverlayText(info) ==
    JoinItems((IF info.gender # "" THEN <<info.gender>> ELSE <<>>)
              \o (IF info.age # "" THEN <<info.age>> ELSE <<>>))

\* A variant of CensorThirdPass that does not read include_info.
CensorThirdPassAlways(r) ==
    LET with == SelectSeq(r.extracted_info, LAMBDA info : OverlayText(info) # "")
    IN  [Touch(r, r.page_of) EXCEPT
            !.inserted = [n \in 1..Len(with) |->
                             [at |-> TextPoint, text |-> OverlayText(with[n])]],
            !.log = @ \o [n \in 1..Len(with) |-> Ev("insert", with[n].i)],
            !.pc = "save"]

\* Lines 145-167: the extracted text is inserted at the fixed point.
CensorThirdPass(r) ==
    IF ~r.include_info THEN [r EXCEPT !.pc = "save"]
    ELSE LET with == SelectSeq(r.extracted_info, LAMBDA info : OverlayText(info) # "")
             r1 == Touch(r, r.page_of)
         IN  [r1 EXCEPT !.inserted = [n \in 1..Len(with) |->
                                         [at |-> TextPoint, text |-> OverlayText(with[n])]],
                        !.log = @ \o [n \in 1..Len(with) |-> Ev("insert", with[n].i)],
                        !.pc = "save"]

\* Lines 171-178: doc.save, then return output_path.
CensorSave(r) ==
    LET r1 == Touch(r, r.cur)
    IN  IF r.fault = "save" THEN Leave(r1, "raise")
        ELSE Leave([r1 EXCEPT !.saved = Append(@,
                        [path |-> r.output_path,
                         npages |-> IF r.cur = "new" THEN 1 ELSE r.doc.npages,
                         items |-> r.page, inserted |-> r.inserted,
                         redacted |-> r.redacted]),
                      !.log = Append(@, Ev("save", 0))], "path")

\* Lines 180-182: doc.close() on whatever doc names now.
CensorFinally(r) ==
    LET r1 == IF r.cur = "orig" THEN [r EXCEPT !.orig = "closed"]
              ELSE [r EXCEPT !.new = "closed"]
    IN  [r1 EXCEPT !.log = Append(@, Ev("close", IF r.cur = "orig" THEN 0 ELSE 1)),
                   !.pc = "done", !.outcome = r.pending]

\* One phase of the call.
CensorStep(r) ==
    CASE r.pc = "begin"       -> CensorBegin(r)
      [] r.pc = "check_pages" -> CensorCheckPages(r)
      [] r.pc = "check_text"  -> CensorCheckText(r)
      [] r.pc = "first_pass"  -> CensorFirstPass(r)
      [] r.pc = "single_page" -> CensorSinglePage(r)
      [] r.pc = "second_pass" -> CensorSecondPass(r)
      [] r.pc = "third_pass"  -> CensorThirdPass(r)
      [] r.pc = "save"        -> CensorSave(r)
      [] r.pc = "finally"     -> CensorFinally(r)
      [] OTHER                -> r

\* The whole call, from any phase to its end.
RECURSIVE CensorRun(_)
CensorRun(r) == IF r.pc = "done" THEN r ELSE CensorRun(CensorStep(r))

\* censor_pdf(pdf_path, coordinates_dict, output_dir, include_info)
censor_pdf(pdf_path, doc, coordinates_dict, output_dir, include_info, fault) ==
    CensorRun(CensorCall(pdf_path, doc, coordinates_dict, output_dir,
                         include_info, fault))

(***************************************************************************)
(* The redactor run on one file (the command line's --file).               *)
(***************************************************************************)
FilePath == [dir |-> <<"in">>, stem |-> "ecg", ext |-> ".pdf"]

OutputDirs == {NoDir, <<"out">>}

Idle == [pc |-> "idle"]

InitCensor ==
    /\ cz \in {CensorCall(FilePath, d, c, o, b, "none") :
                  d \in Docs, c \in CoordinateDicts, o \in OutputDirs, b \in BOOLEAN}
    /\ fd = Idle
    /\ cl = Idle
    /\ tt = Idle

\* The call with the outcome f of the library call its next phase makes.
Given(f) == [cz EXCEPT !.fault = f]

\* fitz.open may raise (a file that is no PDF, or cannot be read).
Begin ==
    /\ cz.pc = "begin"
    /\ \E f \in {"none", "open"} : cz' = CensorBegin(Given(f))
    /\ UNCHANGED <<fd, cl, tt>>

CheckPages ==
    /\ cz.pc = "check_pages"
    /\ cz' = CensorCheckPages(cz)
    /\ UNCHANGED <<fd, cl, tt>>

\* page.get_text() may raise.
CheckText ==
    /\ cz.pc = "check_text"
    /\ \E f \in {"none", "get_text"} : cz' = CensorCheckText(Given(f))
    /\ UNCHANGED <<fd, cl, tt>>

FirstPass ==
    /\ cz.pc = "first_pass"
    /\ cz' = CensorFirstPass(cz)
    /\ UNCHANGED <<fd, cl, tt>>

\* new_doc.insert_pdf may raise.
SinglePage ==
    /\ cz.pc = "single_page"
    /\ \E f \in {"none", "insert_pdf"} : cz' = CensorSinglePage(Given(f))
    /\ UNCHANGED <<fd, cl, tt>>

SecondPass ==
    /\ cz.pc = "second_pass"
    /\ cz' = CensorSecondPass(cz)
    /\ UNCHANGED <<fd, cl, tt>>

ThirdPass ==
    /\ cz.pc = "third_pass"
    /\ cz' = CensorThirdPass(cz)
    /\ UNCHANGED <<fd, cl, tt>>

\* doc.save may raise.
Save ==
    /\ cz.pc = "save"
    /\ \E f \in {"none", "save"} : cz' = CensorSave(Given(f))
    /\ UNCHANGED <<fd, cl, tt>>

Finally ==
    /\ cz.pc = "finally"
    /\ cz' = CensorFinally(cz)
    /\ UNCHANGED <<fd, cl, tt>>

NextCensor ==
    \/ Begin \/ CheckPages \/ CheckText \/ FirstPass \/ SinglePage
    \/ SecondPass \/ ThirdPass \/ Save \/ Finally

SpecCensor == InitCensor /\ [][NextCensor]_vars

(***************************************************************************)
(* process_pdf_folder: the redactor's folder driver.                       *)
(***************************************************************************)
\* os.path.dirname of a directory path
DirName(dir) == IF dir = <<>> THEN <<>> ELSE SubSeq(dir, 1, Len(dir) - 1)

\* str.lower() on the extensions of the listings
Lower(ext) == IF ext = ".PDF" THEN ".pdf" ELSE ext

\* file_name.lower().endswith('.pdf')
IsPdfName(name) == Lower(name.ext) = ".pdf"

FileNames ==
    { [stem |-> "a", ext |-> ".pdf"], [stem |-> "a_censored", ext |-> ".pdf"],
      [stem |-> "B", ext |-> ".PDF"], [stem |-> "notes", ext |-> ".txt"] }

\* What os.listdir may return: distinct names, in any order.
Listings ==
    {l \in SeqsUpTo(FileNames, MaxFiles) :
        \A i, j \in 1..Len(l) : i # j => l[i] # l[j]}

FolderPaths == { <<"in">>, <<"out", "Failed">> }

FolderOutputDirs == { NoDir, <<"out">>, <<"in">> }

\* The documents a folder's files are drawn from.
FolderDocs == {d \in Docs : Len(d.items) <= 1}

\* How censor_pdf can leave, over the documents of a folder and the
\* outcomes of its library calls.
CensorOutcomes ==
    [c \in CoordinateDicts, b \in BOOLEAN |->
        {censor_pdf(FilePath, d, c, NoDir, b, f).outcome :
            d \in FolderDocs, f \in CensorFaults}]

FolderCall(folder_path, exists, listing, coordinates_dict, output_dir, include_info) ==
    [pc |-> "start", folder_path |-> folder_path, exists |-> exists,
     listing |-> listing, coordinates_dict |-> coordinates_dict,
     output_dir |-> output_dir, include_info |-> include_info,
     failed_dir |-> NoDir, idx |-> 1,
     processed_files |-> <<>>, failed_files |-> <<>>,
     saves |-> <<>>, copies |-> <<>>, written |-> {}, handled |-> <<>>]

PathIn(dir, name) == [dir |-> dir, stem |-> name.stem, ext |-> name.ext]

\* Lines 198-214: the output directories, the two lists, the folder check.
FolderBegin(s) ==
    LET out == IF s.output_dir = NoDir
               THEN Append(DirName(s.folder_path), "Censored PDFs")
               ELSE s.output_dir
        s1 == [s EXCEPT !.output_dir = out, !.failed_dir = Append(out, "Failed")]
    IN  IF ~s.exists THEN [s1 EXCEPT !.pc = "done"]
        ELSE [s1 EXCEPT !.pc = "loop"]

\* shutil.copy2(src, dst) raises SameFileError when both name one file, and
\* may raise for the file system's reasons (fails).
CopyRaises(src, dst, fails) == src = dst \/ fails

\* Lines 229-231 and 236-238: os.makedirs(failed_dir), the path in the
\* Failed folder, shutil.copy2.  Every call is recorded in copies; the
\* destination is written unless the call raises.
CopyToFailed(s, pdf_path, fails) ==
    LET dst == PathIn(s.failed_dir, s.listing[s.idx])
        raised == CopyRaises(pdf_path, dst, fails)
    IN  [s EXCEPT !.copies = Append(@, [src |-> pdf_path, dst |-> dst, raised |-> raised]),
                  !.written = IF raised THEN @ ELSE @ \cup {dst}]

CopyRaised(s) == s.copies[Len(s.copies)].raised

\* The iteration is over: the loop goes on with the next name.
NextFile(s) == [s EXCEPT !.idx = @ + 1, !.handled = Append(@, s.listing[s.idx])]

\* Lines 232-238: the except clause; an exception of its copy leaves the
\* function.
FolderExcept(s, pdf_path, fails2) ==
    LET s1 == CopyToFailed([s EXCEPT !.failed_files = Append(@, s.listing[s.idx])],
                           pdf_path, fails2)
    IN  IF CopyRaised(s1) THEN [s1 EXCEPT !.pc = "escaped"] ELSE NextFile(s1)

\* Lines 217-238: one iteration of the loop, for the name at idx; outcome
\* is how censor_pdf leaves for this file, fails1 and fails2 whether the
\* copy of the else branch and the copy of the except clause fail.
FolderFile(s, outcome, fails1, fails2) ==
    LET name == s.listing[s.idx]
        pdf_path == PathIn(s.folder_path, name)
        output_path == OutputPath(pdf_path, s.output_dir)
    IN  IF ~IsPdfName(name) THEN NextFile(s)
        ELSE IF outcome = "path"
        THEN NextFile([s EXCEPT !.processed_files = Append(@, output_path),
                                !.saves = Append(@, [src |-> pdf_path, dst |-> output_path]),
                                !.written = @ \cup {output_path}])
        ELSE IF outcome = "None"
        THEN LET s1 == CopyToFailed([s EXCEPT !.failed_files = Append(@, name)],
                                    pdf_path, fails1)
             IN  IF CopyRaised(s1) THEN FolderExcept(s1, pdf_path, fails2)
                 ELSE NextFile(s1)
        ELSE FolderExcept(s, pdf_path, fails2)

\* Lines 240-248: the summary and the return.
FolderEnd(s) == [s EXCEPT !.pc = "done"]

\* The names of the listing the loop takes as input files.
InputFiles(s) ==
    SelectSeq(s.listing, IsPdfName)

InitFolder ==
    /\ fd \in {FolderCall(p, e, l, c, o, b) :
                  p \in FolderPaths, e \in BOOLEAN, l \in Listings,
                  c \in CoordinateDicts, o \in FolderOutputDirs, b \in BOOLEAN}
    /\ cz = Idle
    /\ cl = Idle
    /\ tt = Idle

FolderStart ==
    /\ fd.pc = "start"
    /\ fd' = FolderBegin(fd)
    /\ UNCHANGED <<cz, cl, tt>>

ProcessFile ==
    /\ fd.pc = "loop"
    /\ fd.idx <= Len(fd.listing)
    /\ \E outcome \in CensorOutcomes[fd.coordinates_dict, fd.include_info],
          fails1, fails2 \in BOOLEAN :
          fd' = FolderFile(fd, outcome, fails1, fails2)
    /\ UNCHANGED <<cz, cl, tt>>

FolderSummary ==
    /\ fd.pc = "loop"
    /\ fd.idx > Len(fd.listing)
    /\ fd' = FolderEnd(fd)
    /\ UNCHANGED <<cz, cl, tt>>

NextFolder == FolderStart \/ ProcessFile \/ FolderSummary

SpecFolder == InitFolder /\ [][NextFolder]_vars

(***************************************************************************)
(* The classifier.  Its text is a sequence of characters; a title is the   *)
(* sequence of its characters.                                             *)
(***************************************************************************)
T_I   == <<"I">>
T_II  == <<"I", "I">>
T_III == <<"I", "I", "I">>
T_V1  == <<"V", "1">>
T_V2  == <<"V", "2">>
T_V3  == <<"V", "3">>
T_V4  == <<"V", "4">>
T_V5  == <<"V", "5">>
T_V6  == <<"V", "6">>
T_aVR == <<"a", "V", "R">>
T_aVL == <<"a", "V", "L">>
T_aVF == <<"a", "V", "F">>

\* The expected counts, in the order of the dictionaries.
FORMAT1_TITLES ==
    << <<T_I, 1>>, <<T_II, 1>>, <<T_III, 1>>, <<T_V1, 2>>, <<T_V2, 1>>,
       <<T_V3, 1>>, <<T_V4, 1>>, <<T_V5, 1>>, <<T_V6, 1>>, <<T_aVR, 1>>,
       <<T_aVL, 1>>, <<T_aVF, 1>> >>

FORMAT2_TITLES ==
    << <<T_I, 1>>, <<T_II, 2>>, <<T_III, 1>>, <<T_V1, 2>>, <<T_V2, 1>>,
       <<T_V3, 1>>, <<T_V4, 1>>, <<T_V5, 2>>, <<T_V6, 1>>, <<T_aVR, 1>>,
       <<T_aVL, 1>>, <<T_aVF, 1>> >>

ECG_FORMATS == << <<"format1", FORMAT1_TITLES>>, <<"format2", FORMAT2_TITLES>> >>

\* str.upper(), on the letters of the texts
UpperChar(c) ==
    CASE c = "a" -> "A" [] c = "v" -> "V" [] c = "i" -> "I" [] c = "x" -> "X"
      [] OTHER -> c

Upper(text) == [i \in 1..Len(text) |-> UpperChar(text[i])]

\* \w and \s of the regular expressions, on the characters of the texts
WordChars == {"I", "V", "A", "R", "L", "F", "X", "a", "v", "i", "x",
              "1", "2", "3", "4", "5", "6"}

SpaceChars == {" ", "\n"}

\* The title stands in the text at position i.
StandsAt(text, i, title) ==
    /\ i + Len(title) - 1 <= Len(text)
    /\ \A k \in 1..Len(title) : text[i + k - 1] = title[k]

\* rf'\b{title}\b': the title between two word boundaries
MatchesWord(text, i, title) ==
    /\ StandsAt(text, i, title)
    /\ (i = 1 \/ text[i - 1] \notin WordChars)
    /\ (i + Len(title) > Len(text) \/ text[i + Len(title)] \notin WordChars)

\* rf'{title}(?=\s|$|:)': the title before a space, the end or a colon
\* ($ also matches before a newline that ends the text, which is a space)
MatchesBefore(text, i, title) ==
    /\ StandsAt(text, i, title)
    /\ \/ i + Len(title) > Len(text)
       \/ text[i + Len(title)] \in SpaceChars \cup {":"}

\* len(re.findall(pattern, processed_text)) for the first two patterns
CountWord(text, title) ==
    Cardinality({i \in 1..Len(text) : MatchesWord(text, i, title)})

CountBefore(text, title) ==
    Cardinality({i \in 1..Len(text) : MatchesBefore(text, i, title)})

\* Lines 118-139 for one title: the count of the first pattern that finds
\* a match.  The third pattern, rf'(?<=\s|^){title}(?=\s|$|:)', has a
\* look-behind of variable width, which re refuses to compile: when the
\* first two patterns find nothing, re.findall raises re.error.  -1 stands
\* for that exception.
CountTitle(processed_text, title) ==
    LET title_upper == Upper(title)
        first == CountWord(processed_text, title_upper)
    IN  IF first > 0 THEN first
        ELSE LET second == CountBefore(processed_text, title_upper)
             IN  IF second > 0 THEN second ELSE -1

\* Lines 94-164.  The result is the returned dictionary, with raised FALSE,
\* or the exception that leaves the function, with raised TRUE.
check_graph_titles(text, expected_titles) ==
    LET processed_text == Upper(text)
        n == Len(expected_titles)
        actual_counts == [k \in 1..n |-> CountTitle(processed_text, expected_titles[k][1])]
        keys == [k \in 1..n |-> k]
        titles(ks) == [j \in 1..Len(ks) |-> expected_titles[ks[j]][1]]
        missing == SelectSeq(keys, LAMBDA k : actual_counts[k] = 0)
        unexpected == SelectSeq(keys, LAMBDA k :
                          actual_counts[k] # 0 /\ actual_counts[k] # expected_titles[k][2])
        found == SelectSeq(keys, LAMBDA k :
                          actual_counts[k] # 0 /\ actual_counts[k] = expected_titles[k][2])
    IN  IF \E k \in 1..n : actual_counts[k] = -1
        THEN [raised |-> TRUE]
        ELSE [raised |-> FALSE,
              is_valid |-> Len(missing) = 0 /\ Len(unexpected) = 0,
              actual_counts |-> [k \in 1..n |-> <<expected_titles[k][1], actual_counts[k]>>],
              expected_counts |-> expected_titles,
              missing_titles |-> titles(missing),
              unexpected_counts |-> [j \in 1..Len(unexpected) |->
                  [title |-> expected_titles[unexpected[j]][1],
                   expected |-> expected_titles[unexpected[j]][2],
                   actual |-> actual_counts[unexpected[j]]]],
              found_titles |-> titles(found)]

NoResults == [raised |-> FALSE, none |-> TRUE]

\* Lines 177-190: the loop over the formats, from format k on.  The value
\* is [raised, matching_format, results]; matching_format "" is None.
RECURSIVE CheckFormatsFrom(_, _, _, _, _)
CheckFormatsFrom(formats, text, k, matching_format, matching_results) ==
    IF k > Len(formats)
    THEN [raised |-> FALSE, matching_format |-> matching_format,
          results |-> matching_results]
    ELSE LET results == check_graph_titles(text, formats[k][2])
         IN  IF results.raised
             THEN [raised |-> TRUE, matching_format |-> "", results |-> NoResults]
             ELSE IF results.is_valid
             THEN IF matching_format # ""
                  THEN [raised |-> FALSE, matching_format |-> "", results |-> NoResults]
                  ELSE CheckFormatsFrom(formats, text, k + 1, formats[k][1], results)
             ELSE CheckFormatsFrom(formats, text, k + 1, matching_format, matching_results)

check_all_formats(text) == CheckFormatsFrom(ECG_FORMATS, text, 1, "", NoResults)

(***************************************************************************)
(* The classifier's input: the first page as page.get_text("dict") gives   *)
(* it, blocks of lines of spans.                                           *)
(***************************************************************************)
\* The lines of a page of the first template.
Format1Lines ==
    << T_I, T_II, T_III, T_aVR, T_aVL, T_aVF,
       T_V1, T_V2, T_V3, T_V4, T_V5, T_V6, T_V1 >>

\* Lines a page may have in addition, and lines it may lack.
AddedLines == { T_II, T_V5, <<"v", "1", ":">>, <<"x", "V", "6">> }

RemovedLines == { T_I, T_V6, T_V1 }

\* lines without the first line equal to line
RECURSIVE WithoutLine(_, _)
WithoutLine(lines, line) ==
    IF lines = <<>> THEN <<>>
    ELSE IF Head(lines) = line THEN Tail(lines)
    ELSE <<Head(lines)>> \o WithoutLine(Tail(lines), line)

\* The pages within n changes of the pages of S.
RECURSIVE Changed(_, _)
Changed(S, n) ==
    IF n = 0 THEN S
    ELSE LET T == Changed(S, n - 1)
         IN  T \cup {Append(l, a) : l \in T, a \in AddedLines}
               \cup {WithoutLine(l, d) : l \in T, d \in RemovedLines}

PageLines == Changed({Format1Lines, <<>>}, MaxEdits)

\* A line as the library splits it into spans.
Spans(line) == IF Len(line) > 1 THEN << <<Head(line)>>, Tail(line) >> ELSE <<line>>

\* The dictionary of a page: an image block, then a text block.
PageDict(lines) ==
    << [type |-> 1, lines |-> <<>>],
       [type |-> 0, lines |-> [i \in 1..Len(lines) |-> Spans(lines[i])]] >>

\* Lines 78-85: the spans of a line concatenated, each line followed by a
\* newline, for the text blocks (type 0).
AllText(blocks) ==
    LET line_text(line) == Flatten(line)
        block_text(block) ==
            IF block.type = 0
            THEN Flatten([i \in 1..Len(block.lines) |-> line_text(block.lines[i]) \o <<"\n">>])
            ELSE <<>>
    IN  Flatten([b \in 1..Len(blocks) |-> block_text(blocks[b])])

\* The files of the classifier: a missing file, a file fitz.open refuses,
\* a document without pages, a page whose text extraction raises, and the
\* readable pages.
ClsFiles ==
    { [exists |-> FALSE, opens |-> FALSE, npages |-> 0, text_raises |-> FALSE, lines |-> <<>>],
      [exists |-> TRUE, opens |-> FALSE, npages |-> 0, text_raises |-> FALSE, lines |-> <<>>],
      [exists |-> TRUE, opens |-> TRUE, npages |-> 0, text_raises |-> FALSE, lines |-> <<>>],
      [exists |-> TRUE, opens |-> TRUE, npages |-> 1, text_raises |-> TRUE, lines |-> <<>>] }
    \cup [exists : {TRUE}, opens : {TRUE}, npages : {1}, text_raises : {FALSE},
          lines : PageLines]

\* Lines 55-92.  text is the returned string; doc is the state of the
\* document handle when the function returns: "none" (never opened),
\* "open" or "closed".
extract_text_from_first_page(file) ==
    IF ~file.exists THEN [text |-> <<>>, doc |-> "none"]
    ELSE IF ~file.opens THEN [text |-> <<>>, doc |-> "none"]
    ELSE IF file.npages = 0 THEN [text |-> <<>>, doc |-> "closed"]
    ELSE IF file.text_raises THEN [text |-> <<>>, doc |-> "open"]
    ELSE [text |-> AllText(PageDict(file.lines)), doc |-> "closed"]

\* Lines 192-229: the text, then check_all_formats; an exception of
\* check_all_formats leaves the function.
validate_ecg_format(file) ==
    LET extracted == extract_text_from_first_page(file)
        checked == check_all_formats(extracted.text)
    IN  [raised |-> checked.raised, matching_format |-> checked.matching_format,
         results |-> checked.results, doc |-> extracted.doc]

(***************************************************************************)
(* The functions of the classifier applied to one file.                    *)
(***************************************************************************)
InitTitles ==
    /\ tt \in {[pc |-> "file", file |-> f] : f \in ClsFiles}
    /\ cz = Idle
    /\ fd = Idle
    /\ cl = Idle

ExtractText ==
    /\ tt.pc = "file"
    /\ tt' = [pc |-> "text", file |-> tt.file,
              extracted |-> extract_text_from_first_page(tt.file)]
    /\ UNCHANGED <<cz, fd, cl>>

CheckGraphTitles ==
    /\ tt.pc = "text"
    /\ \E k \in 1..Len(ECG_FORMATS) :
          tt' = [pc |-> "titles", file |-> tt.file, extracted |-> tt.extracted,
                 format |-> k,
                 results |-> check_graph_titles(tt.extracted.text, ECG_FORMATS[k][2])]
    /\ UNCHANGED <<cz, fd, cl>>

CheckAllFormats ==
    /\ tt.pc = "text"
    /\ tt' = [pc |-> "formats", file |-> tt.file, extracted |-> tt.extracted,
              checked |-> check_all_formats(tt.extracted.text)]
    /\ UNCHANGED <<cz, fd, cl>>

NextTitles == ExtractText \/ CheckGraphTitles \/ CheckAllFormats

SpecTitles == InitTitles /\ [][NextTitles]_vars

(***************************************************************************)
(* main: the classifier's folder driver.                                   *)
(***************************************************************************)
\* The entries input_path.iterdir() may give: files, and a directory whose
\* name ends in .pdf.
ClsEntries ==
    { [name |-> [stem |-> "a", ext |-> ".pdf"], is_file |-> TRUE],
      [name |-> [stem |-> "B", ext |-> ".PDF"], is_file |-> TRUE],
      [name |-> [stem |-> "notes", ext |-> ".txt"], is_file |-> TRUE],
      [name |-> [stem |-> "d", ext |-> ".pdf"], is_file |-> FALSE] }

ClsListings ==
    {l \in SeqsUpTo(ClsEntries, MaxFiles) :
        \A i, j \in 1..Len(l) : i # j => l[i] # l[j]}

ClsInputPaths == { <<"in">>, <<"out", "Correct", "format1">> }

\* args.output; without it the output goes to the script's directory.
ClsOutputArgs == { NoDir, <<"out">> }

ScriptDir == <<"PDF2JSON">>

\* How validate_ecg_format can leave, over the files of the classifier.
ValidateOutcomes ==
    {LET v == validate_ecg_format(f)
     IN  [raised |-> v.raised, matching_format |-> v.matching_format] :
        f \in ClsFiles}

\* How shutil.copy2 can end: done, an exception before anything is written,
\* an exception after the destination was written.
CopyResults == {"ok", "fails", "fails_late"}

FormatNames == {ECG_FORMATS[k][1] : k \in 1..Len(ECG_FORMATS)}

MainCall(input_path, input_is_dir, listing, output) ==
    [pc |-> "start", input_path |-> input_path, input_is_dir |-> input_is_dir,
     listing |-> listing, output |-> output,
     output_path |-> NoDir, correct_path |-> NoDir, incorrect_path |-> NoDir,
     pdf_files |-> <<>>, idx |-> 1,
     total |-> 0, correct |-> 0, incorrect |-> 0,
     format_stats |-> [f \in FormatNames |-> 0],
     copies |-> <<>>, present |-> {}, handled |-> <<>>]

\* Lines 239-285: the input folder, the output folders, the PDF files, the
\* statistics.
MainBegin(s) ==
    IF ~s.input_is_dir THEN [s EXCEPT !.pc = "exit1"]
    ELSE LET out == IF s.output # NoDir THEN s.output ELSE ScriptDir
             isPdf(e) == e.is_file /\ Lower(e.name.ext) = ".pdf"
             files == SelectSeq(s.listing, isPdf)
         IN  [s EXCEPT !.output_path = out,
                       !.correct_path = Append(out, "Correct"),
                       !.incorrect_path = Append(out, "Incorrect"),
                       !.pdf_files = [i \in 1..Len(files) |-> files[i].name],
                       !.total = Len(files),
                       !.pc = "loop"]

\* shutil.copy2(pdf_file, dest) into folder dir: the copy is recorded; the
\* destination exists unless the copy failed before writing.
CopyInto(s, dir, result) ==
    LET name == s.pdf_files[s.idx]
        src == PathIn(s.input_path, name)
        dst == PathIn(dir, name)
        how == IF src = dst THEN "fails" ELSE result
    IN  [s EXCEPT !.copies = Append(@, [name |-> name, dir |-> dir, result |-> how]),
                  !.present = IF how = "fails" THEN @ ELSE @ \cup {dst}]

MainCopyRaised(s) == s.copies[Len(s.copies)].result # "ok"

\* The iteration is over; verdict is what validation gave for the file:
\* the matching format, "" for no match, "raise" for an exception.
MainNextFile(s, verdict) ==
    [s EXCEPT !.idx = @ + 1,
              !.handled = Append(@, [name |-> s.pdf_files[s.idx], verdict |-> verdict])]

\* Lines 306-314: the except clause of the loop; its copy has a try of its
\* own.
MainExcept(s, verdict, result2) ==
    MainNextFile(CopyInto([s EXCEPT !.incorrect = @ + 1], s.incorrect_path, result2),
                 verdict)

\* Lines 287-314: one iteration of the loop; v is how validate_ecg_format
\* leaves, result1 and result2 how the copy of the try block and the copy
\* of the except clause end.
MainFile(s, v, result1, result2) ==
    IF v.raised THEN MainExcept(s, "raise", result2)
    ELSE IF v.matching_format # ""
    THEN LET s1 == CopyInto([s EXCEPT !.correct = @ + 1,
                                      !.format_stats[v.matching_format] = @ + 1],
                            Append(s.correct_path, v.matching_format), result1)
         IN  IF MainCopyRaised(s1) THEN MainExcept(s1, v.matching_format, result2)
             ELSE MainNextFile(s1, v.matching_format)
    ELSE LET s1 == CopyInto([s EXCEPT !.incorrect = @ + 1], s.incorrect_path, result1)
         IN  IF MainCopyRaised(s1) THEN MainExcept(s1, "", result2)
             ELSE MainNextFile(s1, "")

\* Lines 316-337: the summary; main returns 0.
MainEnd(s) == [s EXCEPT !.pc = "done"]

InitMain ==
    /\ cl \in {MainCall(p, e, l, o) :
                  p \in ClsInputPaths, e \in BOOLEAN, l \in ClsListings,
                  o \in ClsOutputArgs}
    /\ cz = Idle
    /\ fd = Idle
    /\ tt = Idle

MainStart ==
    /\ cl.pc = "start"
    /\ cl' = MainBegin(cl)
    /\ UNCHANGED <<cz, fd, tt>>

ValidateFile ==
    /\ cl.pc = "loop"
    /\ cl.idx <= Len(cl.pdf_files)
    /\ \E v \in ValidateOutcomes, result1, result2 \in CopyResults :
          cl' = MainFile(cl, v, result1, result2)
    /\ UNCHANGED <<cz, fd, tt>>

MainSummary ==
    /\ cl.pc = "loop"
    /\ cl.idx > Len(cl.pdf_files)
    /\ cl' = MainEnd(cl)
    /\ UNCHANGED <<cz, fd, tt>>

NextMain == MainStart \/ ValidateFile \/ MainSummary

SpecMain == InitMain /\ [][NextMain]_vars

(***************************************************************************)
(* Properties.                                                             *)
(***************************************************************************)

\* C1: when a folder driver has finished a batch, its success count plus
\* its failure count equals the number of input files: for the redactor
\* len(processed_files) + len(failed_files) is the number of PDF names of
\* the listing, for the classifier correct + incorrect is total.
C1_CountsAddUp ==
    /\ (fd.pc = "done" /\ fd.exists) =>
          Len(fd.processed_files) + Len(fd.failed_files) = Len(InputFiles(fd))
    /\ cl.pc = "done" => cl.correct + cl.incorrect = cl.total

\* C2: no exception raised while a file is handled leaves the loop of a
\* folder driver: the driver never ends by an exception, and when it has
\* returned every name of the listing was handled.
C2_NeverEscapes ==
    /\ fd.pc # "escaped"
    /\ (fd.pc = "done" /\ fd.exists) => Len(fd.handled) = Len(fd.listing)
    /\ cl.pc # "escaped"
    /\ cl.pc = "done" => Len(cl.handled) = Len(cl.pdf_files)

\* The number of times a title occurs in a text, as the two patterns that
\* compile count it.
Occurrences(text, title) ==
    LET c == CountTitle(Upper(text), title) IN IF c < 0 THEN 0 ELSE c

\* Every label of template k occurs in the text as often as expected.
TemplateMatches(text, k) ==
    \A j \in 1..Len(ECG_FORMATS[k][2]) :
        Occurrences(text, ECG_FORMATS[k][2][j][1]) = ECG_FORMATS[k][2][j][2]

OnlyMatch(text, k) ==
    /\ TemplateMatches(text, k)
    /\ \A j \in 1..Len(ECG_FORMATS) : j # k => ~TemplateMatches(text, j)

\* C3: check_all_formats returns the name of a template exactly when that
\* template is the only one whose every label has its expected count, and
\* returns (None, None) when no template or more than one matches.
C3_OnlyMatchReturned ==
    tt.pc = "formats" =>
        LET text == tt.extracted.text
        IN  /\ ~tt.checked.raised
            /\ \A k \in 1..Len(ECG_FORMATS) :
                  (tt.checked.matching_format = ECG_FORMATS[k][1]) <=> OnlyMatch(text, k)
            /\ (~\E k \in 1..Len(ECG_FORMATS) : OnlyMatch(text, k)) =>
                  /\ tt.checked.matching_format = ""
                  /\ tt.checked.results = NoResults

\* The words in which censor_pdf finds a gender or an age.
InfoWords == {"Masculino", "Femenino", "(45 anos)", "(30 anos)"}

\* The text of rectangle k (of length 4) of a call, mirrored as the page's
\* width says.
RectText(r, k) ==
    ClipText(r.doc.items, Mirror(AllRectangles(r.coordinates_dict)[k], r.doc.width))

\* The failure conditions of censor_pdf: no page, no text on the first
\* page, no gender and no age in any rectangle.
NoPages(r) == r.doc.npages = 0

Scanned(r) == \A i \in 1..Len(r.doc.items) : r.doc.items[i].word = " "

NoInfo(r) ==
    \A k \in 1..Len(AllRectangles(r.coordinates_dict)) :
        Len(AllRectangles(r.coordinates_dict)[k]) = 4 =>
            \A i \in 1..Len(RectText(r, k)) : RectText(r, k)[i] \notin InfoWords

\* C4: in each failure condition censor_pdf saves nothing and redacts
\* nothing, and it returns None (unless a library call raised); whenever
\* it returns a path, exactly one save, to that path, has happened.
C4_FailureSavesNothing ==
    /\ cz.pc # "idle" /\ (NoPages(cz) \/ Scanned(cz) \/ NoInfo(cz)) =>
          /\ cz.saved = <<>> /\ cz.annots = <<>> /\ cz.redacted = {}
          /\ cz.pc = "done" => cz.outcome \in {"None", "raise"}
          /\ (cz.pc = "done" /\ cz.outcome = "raise") => cz.fault # "none"
    /\ (cz.pc = "done" /\ cz.outcome = "None") => cz.saved = <<>>
    /\ (cz.pc = "done" /\ cz.outcome = "path") =>
          /\ Len(cz.saved) = 1
          /\ cz.saved[1].path = cz.output_path
          /\ cz.output_path = OutputPath(cz.pdf_path, cz.output_dir)

C4_Witness ==
    /\ cz.pc = "done" /\ cz.outcome = "None"
    /\ ~NoPages(cz) /\ ~Scanned(cz) /\ NoInfo(cz)

\* Rectangle k of a call has length 4.
IsRect(r, k) == Len(AllRectangles(r.coordinates_dict)[k]) = 4

\* No text of the input page is left, in the saved document, inside a
\* rectangle of length 4.
NothingLeftInside(r) ==
    \A k \in 1..Len(AllRectangles(r.coordinates_dict)) : IsRect(r, k) =>
        \A n \in 1..Len(r.saved) : \A i \in 1..Len(r.saved[n].items) :
            ~InRect(r.saved[n].items[i].at,
                    Mirror(AllRectangles(r.coordinates_dict)[k], r.doc.width))

\* The saved document holds the overlay text.
HasOverlay(r, text) ==
    \E n \in 1..Len(r.saved) : \E i \in 1..Len(r.saved[n].inserted) :
        r.saved[n].inserted[i] = [at |-> TextPoint, text |-> text]

\* The age words of a text, in the text's order.
AgeWords(text) == SelectSeq(text, LAMBDA w : w \in {"(45 anos)", "(30 anos)"})

C7_HandlesClosed ==
    /\ tt.pc \in {"text", "titles", "formats"} => tt.extracted.doc # "open"
    /\ cz.pc = "done" => cz.orig # "open" /\ cz.new # "open" /\ ~cz.misuse

\* C8: check_graph_titles returns a result in which every expected label
\* is in exactly one of missing_titles (it occurs 0 times),
\* unexpected_counts (it occurs, but not as often as expected) and
\* found_titles (it occurs as often as expected); a label that occurs 0
\* times makes is_valid false, and is_valid is true exactly when every
\* label is in found_titles.
C8_EveryLabelClassified ==
    tt.pc = "titles" =>
        LET r == tt.results
            expected == ECG_FORMATS[tt.format][2]
            text == tt.extracted.text
        IN  /\ ~r.raised
            /\ \A j \in 1..Len(expected) :
                  LET title == expected[j][1]
                      n == Occurrences(text, title)
                      missing == title \in Range(r.missing_titles)
                      unexpected == \E u \in Range(r.unexpected_counts) : u.title = title
                      found == title \in Range(r.found_titles)
                  IN  /\ missing <=> n = 0
                      /\ unexpected <=> (n # 0 /\ n # expected[j][2])
                      /\ found <=> n = expected[j][2]
                      /\ n = 0 => ~r.is_valid
            /\ r.is_valid <=> Len(r.found_titles) = Len(expected)

\* The folders in which a copy of a handled file arrived.
Destinations(s, name) ==
    {s.copies[i].dir : i \in {j \in 1..Len(s.copies) :
                                 s.copies[j].name = name /\ s.copies[j].result # "fails"}}

\* C9: main routes every handled file to exactly one folder, Correct/f
\* when validation returned the format f and Incorrect otherwise, and the
\* counter of a format counts the files copied into its folder.
C9_OneDestination ==
    cl.pc \in {"loop", "done"} =>
        /\ \A i \in 1..Len(cl.handled) :
              Destinations(cl, cl.handled[i].name) =
                 { IF cl.handled[i].verdict \in FormatNames
                   THEN Append(cl.correct_path, cl.handled[i].verdict)
                   ELSE cl.incorrect_path }
        /\ \A f \in FormatNames :
              cl.format_stats[f] =
                 Cardinality({i \in 1..Len(cl.handled) :
                     Append(cl.correct_path, f) \in Destinations(cl, cl.handled[i].name)})

\* C10: include_info only toggles the overlay.  When a call has ended, the
\* call with the other value of include_info on the same input ends the
\* same way, with the same output path, the same saved page and the same
\* redacted rectangles; a call with include_info false inserts no text.
C10_FlagOnlyTogglesOverlay ==
    cz.pc = "done" =>
        LET other == censor_pdf(cz.pdf_path, cz.doc, cz.coordinates_dict,
                                cz.output_dir, ~cz.include_info, cz.fault)
        IN  /\ other.outcome = cz.outcome
            /\ other.output_path = cz.output_path
            /\ other.redacted = cz.redacted
            /\ other.annots = cz.annots
            /\ Len(other.saved) = Len(cz.saved)
            /\ \A n \in 1..Len(cz.saved) :
                  /\ other.saved[n].path = cz.saved[n].path
                  /\ other.saved[n].items = cz.saved[n].items
                  /\ other.saved[n].npages = cz.saved[n].npages
            /\ ~cz.include_info =>
                  /\ cz.inserted = <<>>
                  /\ \A n \in 1..Len(cz.saved) : cz.saved[n].inserted = <<>>

C10_Witness ==
    /\ cz.pc = "done" /\ cz.outcome = "path" /\ ~cz.include_info
    /\ cz.extracted_info # <<>>
    /\ cz.redacted # {}

\* The positions of the log at which an operation of the set ops happened.
LogPositions(r, ops) == {k \in 1..Len(r.log) : r.log[k].op \in ops}

\* C11: for an input of more than one page, what censor_pdf saves has one
\* page, whose text is text of the input's first page; the page check,
\* the text check and the extraction use the open original before the
\* single-page document exists, and the redaction and the overlay use the
\* page of the open copy after the original was closed; no closed handle
\* is used.
C11_FirstPageOnly ==
    (cz.pc # "idle" /\ cz.doc.npages > 1) =>
        /\ ~cz.misuse
        /\ \A n \in 1..Len(cz.saved) :
              /\ cz.saved[n].npages = 1
              /\ Range(cz.saved[n].items) \subseteq Range(cz.doc.items)
              /\ \A i \in 1..Len(cz.doc.items) :
                    (\A q \in cz.saved[n].redacted : ~InRect(cz.doc.items[i].at, q))
                        => cz.doc.items[i] \in Range(cz.saved[n].items)
        /\ cz.pc \in {"check_pages", "check_text", "first_pass", "single_page"} =>
              /\ cz.cur = "orig" /\ cz.page_of = "orig"
              /\ cz.orig = "open" /\ cz.new = "none"
        /\ cz.pc \in {"second_pass", "third_pass", "save"} =>
              /\ cz.cur = "new" /\ cz.page_of = "new"
              /\ cz.orig = "closed" /\ cz.new = "open"
        /\ \A k \in LogPositions(cz, {"extract"}) :
              \A j \in LogPositions(cz, {"open_new", "close"}) : k < j
        /\ \A k \in LogPositions(cz, {"annot", "apply", "insert", "save"}) :
              /\ \E j \in LogPositions(cz, {"open_new"}) : j < k
              /\ \E j \in LogPositions(cz, {"close"}) : j < k

C11_Witness ==
    /\ cz.pc = "done" /\ cz.outcome = "path" /\ cz.doc.npages > 1
    /\ Len(cz.saved) = 1 /\ cz.saved[1].npages = 1
    /\ cz.saved[1].inserted # <<>>
    /\ cz.saved[1].redacted # {}

\* The indices (from 0) that the log holds for an operation.
LogIndices(r, op) == {r.log[k].i : k \in LogPositions(r, {op})}

\* C12: the phases of censor_pdf happen in a fixed order.  Every text
\* extraction precedes every black fill, every black fill precedes the
\* application of the redactions, which precedes every overlay; a
\* successful call saves once, after all of them.  What was extracted from
\* a rectangle is what the unredacted input page holds in it, whatever the
\* other rectangles are, and the rectangles read and the rectangles filled
\* are exactly those of length 4.
C12_PhasesInOrder ==
    cz.pc # "idle" =>
        LET rects == AllRectangles(cz.coordinates_dict)
            four == {i \in 0..(Len(rects) - 1) : Len(rects[i + 1]) = 4}
        IN  /\ \A k \in LogPositions(cz, {"extract"}) :
                  \A j \in LogPositions(cz, {"annot", "apply", "insert", "save"}) : k < j
            /\ \A k \in LogPositions(cz, {"annot"}) :
                  \A j \in LogPositions(cz, {"apply", "insert", "save"}) : k < j
            /\ \A k \in LogPositions(cz, {"apply"}) :
                  \A j \in LogPositions(cz, {"insert", "save"}) : k < j
            /\ \A k \in LogPositions(cz, {"insert"}) :
                  \A j \in LogPositions(cz, {"save"}) : k < j
            /\ LogIndices(cz, "extract") \subseteq four
            /\ LogIndices(cz, "annot") \subseteq four
            /\ \A n \in 1..Len(cz.extracted_info) :
                  LET info == cz.extracted_info[n]
                  IN  /\ info.i \in four
                      /\ info.gender = ExtractGender(RectText(cz, info.i + 1))
                      /\ info.age = ExtractAge(RectText(cz, info.i + 1))
            /\ (cz.pc = "done" /\ cz.outcome = "path") =>
                  /\ LogIndices(cz, "extract") = four
                  /\ LogIndices(cz, "annot") = four
                  /\ Cardinality(LogPositions(cz, {"apply"})) = 1
                  /\ Cardinality(LogPositions(cz, {"save"})) = 1
                  /\ Cardinality(LogPositions(cz, {"extract"})) = Cardinality(four)
                  /\ Cardinality(LogPositions(cz, {"annot"})) = Cardinality(four)
                  /\ \A i \in four :
                        (ExtractGender(RectText(cz, i + 1)) # ""
                            \/ ExtractAge(RectText(cz, i + 1)) # "")
                        => \E n \in 1..Len(cz.extracted_info) : cz.extracted_info[n].i = i
                  /\ Len(cz.annots) = Cardinality(four)

\* A successful call on overlapping rectangles, one of them not of length
\* 4, in which two rectangles gave information.
C12_Witness ==
    /\ cz.pc = "done" /\ cz.outcome = "path" /\ cz.include_info
    /\ Len(cz.extracted_info) >= 2
    /\ \E k \in 1..Len(AllRectangles(cz.coordinates_dict)) :
          Len(AllRectangles(cz.coordinates_dict)[k]) # 4
    /\ \E n, m \in 1..Len(cz.annots) :
          /\ n # m
          /\ \E i \in 1..Len(cz.doc.items) :
                InRect(cz.doc.items[i].at, cz.annots[n])
                    /\ InRect(cz.doc.items[i].at, cz.annots[m])

\* C13: no text validates against both templates, so check_all_formats
\* never takes its ambiguity branch: for every text it returns the first
\* template's name with valid results, the second template's name with
\* valid results, or (None, None).
C13_ExactlyOneResult ==
    tt.pc = "formats" =>
        LET text == tt.extracted.text
        IN  /\ ~tt.checked.raised
            /\ ~(\A k \in 1..Len(ECG_FORMATS) : TemplateMatches(text, k))
            /\ tt.checked.matching_format \in FormatNames \cup {""}
            /\ tt.checked.matching_format # "" =>
                  /\ ~tt.checked.results.raised
                  /\ tt.checked.results # NoResults
                  /\ tt.checked.results.is_valid
            /\ tt.checked.matching_format = "" => tt.checked.results = NoResults

====
